---- MODULE Spec2Model ----
(***************************************************************************)
(* painter: call-graph extraction from LLVM bitcode (src/src/lib.rs).      *)
(*                                                                         *)
(*   extract_calls  scans a directory, loads every "*.bc" entry, demangles *)
(*                  the endpoints of every call-graph edge and keeps the   *)
(*                  edges that mention no BLOCKED_STRINGS substring.       *)
(*   compile_crate  runs the toolchain, copies emitted bitcode into the    *)
(*                  bitcode store and runs clean.                          *)
(*   clean          runs the toolchain's clean and removes "target".       *)
(*                                                                         *)
(* Text is modelled as sequences of one-character strings so that          *)
(* substring search, extension parsing and demangling are computed.        *)
(***************************************************************************)
EXTENDS Naturals, Sequences, FiniteSets, TLC

(***************************************************************************)
(* Bounds of the model.                                                    *)
(***************************************************************************)
\* longest directory listing handed to extract_calls
MaxEntries == 3

(***************************************************************************)
(* Text helpers (str::starts_with, str::contains, slicing).                *)
(***************************************************************************)
StartsWith(s, p) == Len(s) >= Len(p) /\ SubSeq(s, 1, Len(p)) = p

Drop(s, n) == SubSeq(s, n + 1, Len(s))

Contains(s, p) ==
    \E i \in 1..Len(s) : i + Len(p) - 1 <= Len(s) /\ SubSeq(s, i, i + Len(p) - 1) = p

(***************************************************************************)
(* BLOCKED_STRINGS: "llvm.", "__rust", "rt::", "std::", "core::",          *)
(* "alloc::".                                                              *)
(***************************************************************************)
BLK_llvm == <<"l", "l", "v", "m", ".">>
BLK_rust == <<"_", "_", "r", "u", "s", "t">>
BLK_rt == <<"r", "t", ":", ":">>
BLK_std == <<"s", "t", "d", ":", ":">>
BLK_core == <<"c", "o", "r", "e", ":", ":">>
BLK_alloc == <<"a", "l", "l", "o", "c", ":", ":">>

BLOCKED_STRINGS == {BLK_llvm, BLK_rust, BLK_rt, BLK_std, BLK_core, BLK_alloc}

(***************************************************************************)
(* rustc_demangle::demangle formatted with "{:#}" (alternate mode).        *)
(* The legacy "_ZN<len><ident>...E" scheme is modelled: validation of the  *)
(* length-prefixed elements, "::" between elements, the trailing hash      *)
(* element left out in alternate mode, ".." rendered as "::" and the       *)
(* "$..$" escapes for punctuation.  Anything that does not validate is     *)
(* rendered as the original symbol.  The v0 scheme, "$uXX$" escapes and    *)
(* ".llvm." / dotted suffixes are outside the modelled symbols.            *)
(***************************************************************************)
Digits == {"0", "1", "2", "3", "4", "5", "6", "7", "8", "9"}

HexDigits == Digits \cup {"a", "b", "c", "d", "e", "f", "A", "B", "C", "D", "E", "F"}

DigitVal(c) ==
    CASE c = "0" -> 0 [] c = "1" -> 1 [] c = "2" -> 2 [] c = "3" -> 3 [] c = "4" -> 4
      [] c = "5" -> 5 [] c = "6" -> 6 [] c = "7" -> 7 [] c = "8" -> 8 [] c = "9" -> 9

PFX_ZN == <<"_", "Z", "N">>
PFX_win == <<"Z", "N">>
PFX_mac == <<"_", "_", "Z", "N">>
PATHSEP == <<":", ":">>

\* number of leading decimal digits of s
RECURSIVE LeadingDigits(_)
LeadingDigits(s) ==
    IF s # <<>> /\ Head(s) \in Digits THEN 1 + LeadingDigits(Tail(s)) ELSE 0

\* value of the decimal number spelled by the digit sequence d
RECURSIVE DecimalValue(_)
DecimalValue(d) ==
    IF d = <<>> THEN 0
    ELSE 10 * DecimalValue(SubSeq(d, 1, Len(d) - 1)) + DigitVal(d[Len(d)])

ParseFail == [ok |-> FALSE, elems |-> <<>>, rest |-> <<>>]

\* legacy::demangle's validation loop: the elements up to the closing "E"
RECURSIVE ParseElems(_)
ParseElems(s) ==
    IF s = <<>> THEN ParseFail
    ELSE IF Head(s) = "E" THEN [ok |-> TRUE, elems |-> <<>>, rest |-> Tail(s)]
    ELSE IF Head(s) \notin Digits THEN ParseFail
    ELSE LET n == LeadingDigits(s)
             len == DecimalValue(SubSeq(s, 1, n))
             after == Drop(s, n)
         IN  IF Len(after) < len + 1 THEN ParseFail
             ELSE LET more == ParseElems(Drop(after, len))
                  IN  IF more.ok
                      THEN [ok |-> TRUE,
                            elems |-> <<SubSeq(after, 1, len)>> \o more.elems,
                            rest |-> more.rest]
                      ELSE ParseFail

\* is_rust_hash: "h" followed by hexadecimal digits only
IsRustHash(e) ==
    /\ e # <<>>
    /\ Head(e) = "h"
    /\ \A i \in 2..Len(e) : e[i] \in HexDigits

\* position of the first "$" of s, 0 when there is none
RECURSIVE FindDollar(_)
FindDollar(s) ==
    IF s = <<>> THEN 0
    ELSE IF Head(s) = "$" THEN 1
    ELSE LET r == FindDollar(Tail(s)) IN IF r = 0 THEN 0 ELSE r + 1

EscapeKnown(e) ==
    e \in {<<"S", "P">>, <<"B", "P">>, <<"R", "F">>, <<"L", "T">>, <<"G", "T">>,
           <<"L", "P">>, <<"R", "P">>, <<"C">>}

EscapeChar(e) ==
    CASE e = <<"S", "P">> -> "@" [] e = <<"B", "P">> -> "*" [] e = <<"R", "F">> -> "&"
      [] e = <<"L", "T">> -> "<" [] e = <<"G", "T">> -> ">" [] e = <<"L", "P">> -> "("
      [] e = <<"R", "P">> -> ")" [] e = <<"C">> -> ","

\* the rendering loop of one element
RECURSIVE Unescape(_)
Unescape(s) ==
    IF s = <<>> THEN <<>>
    ELSE IF Head(s) = "."
    THEN IF Len(s) >= 2 /\ s[2] = "."
         THEN PATHSEP \o Unescape(Drop(s, 2))
         ELSE <<".">> \o Unescape(Tail(s))
    ELSE IF Head(s) = "$"
    THEN LET end == FindDollar(Tail(s))
         IN  IF end = 0 THEN s
             ELSE LET esc == SubSeq(s, 2, end)
                  IN  IF EscapeKnown(esc)
                      THEN <<EscapeChar(esc)>> \o Unescape(Drop(s, end + 1))
                      ELSE s
    ELSE <<Head(s)>> \o Unescape(Tail(s))

RenderElem(e) == Unescape(IF StartsWith(e, <<"_", "$">>) THEN Tail(e) ELSE e)

\* elements joined by "::"
RECURSIVE JoinElems(_)
JoinElems(es) ==
    IF es = <<>> THEN <<>>
    ELSE IF Len(es) = 1 THEN RenderElem(es[1])
    ELSE RenderElem(es[1]) \o PATHSEP \o JoinElems(Tail(es))

\* format!("{:#}", demangle(raw))
Demangle(raw) ==
    LET inner == IF StartsWith(raw, PFX_ZN) THEN Drop(raw, 3)
                 ELSE IF StartsWith(raw, PFX_win) THEN Drop(raw, 2)
                 ELSE IF StartsWith(raw, PFX_mac) THEN Drop(raw, 4)
                 ELSE <<>>
        p == ParseElems(inner)
    IN  IF ~p.ok \/ p.rest # <<>> THEN raw
        ELSE LET n == Len(p.elems)
                 shown == IF n > 0 /\ IsRustHash(p.elems[n])
                          THEN SubSeq(p.elems, 1, n - 1)
                          ELSE p.elems
             IN  JoinElems(shown)

(***************************************************************************)
(* The noise filter of extract_calls, applied to one edge.                 *)
(***************************************************************************)
\* a mutant: only the caller is screened
BlockedCallerOnly(src, dst) == \E s \in BLOCKED_STRINGS : Contains(src, s)

\* BLOCKED_STRINGS.iter().any(|s| src.contains(*s) || dst.contains(*s))
Blocked(src, dst) ==
    \E s \in BLOCKED_STRINGS : Contains(src, s) \/ Contains(dst, s)

\* the pairs one raw edge pushes onto calls: none or one
Accept(src_raw, dst_raw) ==
    LET src == Demangle(src_raw)
        dst == Demangle(dst_raw)
    IN  IF ~Blocked(src, dst) THEN <<<<src, dst>>>> ELSE <<>>

(***************************************************************************)
(* Path::extension: the part of the file name after its last ".", none     *)
(* when the name has no "." or only a leading one.                         *)
(***************************************************************************)
RECURSIVE LastDot(_)
LastDot(name) ==
    IF name = <<>> THEN 0
    ELSE IF name[Len(name)] = "." THEN Len(name)
    ELSE LastDot(SubSeq(name, 1, Len(name) - 1))

Extension(name) ==
    LET d == LastDot(name)
    IN  IF d <= 1 THEN [some |-> FALSE, ext |-> <<>>]
        ELSE [some |-> TRUE, ext |-> Drop(name, d)]

EXT_bc == <<"b", "c">>

\* a mutant: any name ending in "bc" passes
EndsWithBc(name) ==
    Len(name) >= 2 /\ SubSeq(name, Len(name) - 1, Len(name)) = EXT_bc

\* e.path().extension().is_some() && e.path().extension().unwrap() == "bc"
HasBcExtension(name) == Extension(name).some /\ Extension(name).ext = EXT_bc

(***************************************************************************)
(* Raw symbols as they appear in a module's call graph.                    *)
(***************************************************************************)
SYM_app_main == <<"_", "Z", "N", "3", "a", "p", "p", "4", "m", "a", "i", "n", "E">>
SYM_app_run_hash == <<"_", "Z", "N", "3", "a", "p", "p", "3", "r", "u", "n", "3", "h", "1", "f", "E">>
SYM_core_drop == <<"_", "Z", "N", "4", "c", "o", "r", "e", "4", "d", "r", "o", "p", "E">>
SYM_sort_by == <<"_", "Z", "N", "4", "s", "o", "r", "t", "2", "b", "y", "E">>
SYM_impl_std == <<"_", "Z", "N", "3", "a", "p", "p", "7", "s", "t", "d", ".", ".", "i", "o", "E">>
SYM_llvm_dbg == <<"l", "l", "v", "m", ".", "d", "b", "g">>
SYM_rust_alloc == <<"_", "_", "r", "u", "s", "t", "_", "a", "l", "l", "o", "c">>
SYM_main == <<"m", "a", "i", "n">>
SYM_generic == <<"_", "Z", "N", "9", "$", "L", "T", "$", "T", "$", "G", "T", "$", "2", "g", "o", "E">>
SYM_truncated == <<"_", "Z", "N", "9", "a", "p", "p", "E">>

(***************************************************************************)
(* Call graphs (graph.inner().all_edges(), in edge order) of the modules   *)
(* a bitcode file may hold.                                                *)
(***************************************************************************)
MOD_one == << <<SYM_app_main, SYM_app_run_hash>> >>

MOD_mixed ==
    << <<SYM_app_main, SYM_core_drop>>, <<SYM_main, SYM_app_main>>,
       <<SYM_sort_by, SYM_main>>, <<SYM_generic, SYM_truncated>> >>

MOD_noise ==
    << <<SYM_llvm_dbg, SYM_main>>, <<SYM_app_main, SYM_rust_alloc>>,
       <<SYM_app_main, SYM_impl_std>> >>

MOD_empty == <<>>

(***************************************************************************)
(* Directory entries that read_dir may yield.  ok = FALSE is an entry      *)
(* whose read failed (Err); loadable = FALSE is a file that                *)
(* Module::from_bc_path rejects.                                           *)
(***************************************************************************)
FILE_a_bc == <<"a", ".", "b", "c">>
FILE_b_bc == <<"b", ".", "b", "c">>
FILE_c_bc == <<"c", ".", "b", "c">>
FILE_d_bc == <<"d", ".", "b", "c">>
FILE_bad_bc == <<"b", "a", "d", ".", "b", "c">>
FILE_tar_bc == <<"x", ".", "t", "a", "r", ".", "b", "c">>
FILE_txt == <<"a", ".", "b", "c", ".", "t", "x", "t">>
FILE_noext == <<"b", "c">>
FILE_hidden == <<".", "b", "c">>
FILE_upper == <<"a", ".", "B", "C">>

DirEntry(ok, name, loadable, edges) ==
    [ok |-> ok, name |-> name, loadable |-> loadable, edges |-> edges]

EntryPool ==
    { DirEntry(TRUE, FILE_a_bc, TRUE, MOD_one),
      DirEntry(TRUE, FILE_b_bc, TRUE, MOD_one),
      DirEntry(TRUE, FILE_c_bc, TRUE, MOD_mixed),
      DirEntry(TRUE, FILE_tar_bc, TRUE, MOD_noise),
      DirEntry(TRUE, FILE_bad_bc, FALSE, MOD_empty),
      DirEntry(FALSE, FILE_d_bc, TRUE, MOD_one),
      DirEntry(TRUE, FILE_txt, TRUE, MOD_one),
      DirEntry(TRUE, FILE_noext, TRUE, MOD_one),
      DirEntry(TRUE, FILE_hidden, TRUE, MOD_mixed),
      DirEntry(TRUE, FILE_upper, FALSE, MOD_empty) }

\* listings of at most n distinct entries, in every iteration order
RECURSIVE Listings(_)
Listings(n) ==
    IF n = 0 THEN {<<>>}
    ELSE LET shorter == Listings(n - 1)
         IN  shorter \cup
             { Append(l, e) : l \in {s \in shorter : Len(s) = n - 1},
                              e \in EntryPool }

DistinctNames(l) == \A i, j \in 1..Len(l) : i # j => l[i].name # l[j].name

Directories == {l \in Listings(MaxEntries) : DistinctNames(l)}

(***************************************************************************)
(* State of one call of extract_calls.                                     *)
(***************************************************************************)
VARIABLES
    dir,          \* the entries read_dir yields, in iteration order
    dirReadable,  \* whether read_dir itself succeeds
    xpc,          \* position in extract_calls
    idx,          \* index of the entry under the for loop
    eidx,         \* index of the edge under for_each
    calls,        \* the Vec<(String, String)> being built
    loadCalls,    \* indices of the entries passed to Module::from_bc_path
    xresult       \* "none", "Ok" once extract_calls has returned

extractVars == <<dir, dirReadable, xpc, idx, eidx, calls, loadCalls, xresult>>

(***************************************************************************)
(* State of the calls of compile_crate and clean.                          *)
(***************************************************************************)
VARIABLES
    cpc,         \* position in compile_crate / clean; "idle" between calls
    op,          \* the function the caller called: "compile" or "clean"
    ncalls,      \* calls made so far
    fullname,    \* "{name}-{version}" of the running compile_crate
    cargoOut,    \* output of the build
    walk,        \* the source tree as WalkDir yields it
    widx,        \* index of the walk entry under for_each
    target,      \* whether src_path/target exists
    root,        \* whether bc_root exists
    storeDirs,   \* the subdirectories of bc_root
    store,       \* the files under bc_root: path -> content or "absent"
    cleanOut,    \* output of the clean run
    cleanRet,    \* what the running clean returned
    cresult,     \* what the last call returned
    raised,      \* the error a panic carries
    ioErrors,    \* errors of this call whose Result was dropped: <<op, kind>>
    rmAttempts,  \* remove_dir_all calls of this call
    cleanCount,  \* clean invocations of this call
    copied,      \* file names copied by this call
    visited,     \* file names of the artifacts this call reached
    store0,      \* store, storeDirs at the start of this call
    relocs       \* the last two completed relocations

compileVars ==
    <<cpc, op, ncalls, fullname, cargoOut, walk, widx, target, root, storeDirs, store,
      cleanOut, cleanRet, cresult, raised, ioErrors, rmAttempts, cleanCount, copied,
      visited, store0, relocs>>

vars == <<extractVars, compileVars>>

InitExtract ==
    /\ dir \in Directories
    /\ dirReadable \in BOOLEAN
    /\ xpc = "read_dir"
    /\ idx = 1
    /\ eidx = 1
    /\ calls = <<>>
    /\ loadCalls = <<>>
    /\ xresult = "none"

\* std::fs::read_dir(..).unwrap()
ReadDir ==
    /\ UNCHANGED compileVars
    /\ xpc = "read_dir"
    /\ xpc' = IF dirReadable THEN "iter" ELSE "panic"
    /\ UNCHANGED <<dir, dirReadable, idx, eidx, calls, loadCalls, xresult>>

\* .filter_map(Result::ok).filter(extension == "bc"), then Ok(calls) at the end
NextEntry ==
    /\ UNCHANGED compileVars
    /\ xpc = "iter"
    /\ IF idx > Len(dir)
       THEN /\ xpc' = "done"
            /\ xresult' = "Ok"
            /\ idx' = idx
       ELSE IF dir[idx].ok /\ HasBcExtension(dir[idx].name)
       THEN /\ xpc' = "load"
            /\ UNCHANGED <<xresult, idx>>
       ELSE /\ idx' = idx + 1
            /\ UNCHANGED <<xpc, xresult>>
    /\ UNCHANGED <<dir, dirReadable, eidx, calls, loadCalls>>

\* a mutant: a module that fails to load is skipped
LoadModuleSkipBad ==
    /\ UNCHANGED compileVars
    /\ xpc = "load"
    /\ loadCalls' = Append(loadCalls, idx)
    /\ IF dir[idx].loadable
       THEN xpc' = "edges" /\ eidx' = 1 /\ idx' = idx
       ELSE xpc' = "iter" /\ eidx' = eidx /\ idx' = idx + 1
    /\ UNCHANGED <<dir, dirReadable, calls, xresult>>

\* Module::from_bc_path(&bc_path).map_err(Error::LLVMError).unwrap()
LoadModule ==
    /\ UNCHANGED compileVars
    /\ xpc = "load"
    /\ loadCalls' = Append(loadCalls, idx)
    /\ IF dir[idx].loadable
       THEN xpc' = "edges" /\ eidx' = 1
       ELSE xpc' = "panic" /\ eidx' = eidx
    /\ UNCHANGED <<dir, dirReadable, idx, calls, xresult>>

\* a mutant: a pair already present is not pushed again
PushDedup(vec, pairs) ==
    vec \o SelectSeq(pairs, LAMBDA p : \A k \in 1..Len(vec) : vec[k] # p)

\* calls.push((src, dst))
Push(vec, pairs) == vec \o pairs

\* one step of all_edges().for_each(..); the for loop moves on after the last edge
VisitEdge ==
    /\ UNCHANGED compileVars
    /\ xpc = "edges"
    /\ IF eidx > Len(dir[idx].edges)
       THEN /\ xpc' = "iter"
            /\ idx' = idx + 1
            /\ UNCHANGED <<eidx, calls>>
       ELSE /\ calls' = Push(calls, Accept(dir[idx].edges[eidx][1], dir[idx].edges[eidx][2]))
            /\ eidx' = eidx + 1
            /\ UNCHANGED <<xpc, idx>>
    /\ UNCHANGED <<dir, dirReadable, loadCalls, xresult>>

(***************************************************************************)
(* compile_crate and clean: the file system and the toolchain.             *)
(***************************************************************************)
\* calls the caller makes one after another on the same directories
MaxCalls == 2

CrateNames == {"foo"}
Versions == {"1.0", "2.0"}

\* format!("{}-{}", &name, version)
Fullname(name, version) == name \o "-" \o version

StoreDirs == {Fullname(n, v) : n \in CrateNames, v \in Versions}

FILE_lib_rs == <<"l", "i", "b", ".", "r", "s">>

StoreFiles == {FILE_a_bc, FILE_b_bc, FILE_c_bc}

StorePaths == StoreDirs \X StoreFiles

EmptyStore == [p \in StorePaths |-> "absent"]

\* the bitcode store before the first call: root missing, root empty, root in use
InitialStores ==
    { [root |-> FALSE, dirs |-> {}, files |-> EmptyStore],
      [root |-> TRUE, dirs |-> {}, files |-> EmptyStore],
      [root |-> TRUE, dirs |-> StoreDirs,
       files |-> [p \in StorePaths |->
                    IF p \in {<<"foo-1.0", FILE_a_bc>>, <<"foo-1.0", FILE_c_bc>>,
                              <<"foo-2.0", FILE_b_bc>>}
                    THEN "old" ELSE "absent"]] }

WalkEntry(ok, name, content) == [ok |-> ok, name |-> name, content |-> content]

\* what WalkDir::new(src_path) yields after a successful build, in walk order
Walks ==
    { <<>>,
      <<WalkEntry(TRUE, FILE_a_bc, "bc1")>>,
      <<WalkEntry(TRUE, FILE_a_bc, "bc1"), WalkEntry(TRUE, FILE_lib_rs, "src"),
        WalkEntry(TRUE, FILE_b_bc, "bc2")>>,
      <<WalkEntry(TRUE, FILE_a_bc, "bc1"), WalkEntry(TRUE, FILE_a_bc, "bc2")>>,
      <<WalkEntry(FALSE, FILE_c_bc, "bc1"), WalkEntry(TRUE, FILE_a_bc, "bc2")>> }

\* std::process::Output of a toolchain run; utf8 = FALSE: a stream is not UTF-8
Output(status, stdout, stderr, utf8) ==
    [ran |-> TRUE, status |-> status, stdout |-> stdout, stderr |-> stderr, utf8 |-> utf8]

NoOutput ==
    [ran |-> FALSE, status |-> FALSE, stdout |-> "", stderr |-> "", utf8 |-> TRUE]

CompileOutputs ==
    { Output(TRUE, "", "Finished release", TRUE),
      Output(FALSE, "", "error[E0308]: mismatched types", TRUE),
      Output(FALSE, "note", "", FALSE) }

CleanOutputs ==
    { Output(TRUE, "", "", TRUE),
      Output(FALSE, "", "error: could not clean", TRUE) }

\* values of Result<(), Error>; kind "none" while the call is running
Result(kind, text, output) == [kind |-> kind, text |-> text, output |-> output]

NoResult == Result("none", "", NoOutput)
ResultOk == Result("Ok", "", NoOutput)
NoError == [op |-> "none", kind |-> "none"]


InitCompile ==
    /\ cpc = "idle"
    /\ op = "none"
    /\ ncalls = 0
    /\ fullname = ""
    /\ cargoOut = NoOutput
    /\ walk = <<>>
    /\ widx = 1
    /\ target \in BOOLEAN
    /\ \E s \in InitialStores :
          /\ root = s.root
          /\ storeDirs = s.dirs
          /\ store = s.files
          /\ store0 = [files |-> s.files, dirs |-> s.dirs]
    /\ cleanOut = NoOutput
    /\ cleanRet = NoResult
    /\ cresult = NoResult
    /\ raised = NoError
    /\ ioErrors = {}
    /\ rmAttempts = 0
    /\ cleanCount = 0
    /\ copied = {}
    /\ visited = {}
    /\ relocs = <<>>

\* the per-call bookkeeping at the start of a call
StartCall(f) ==
    /\ ncalls < MaxCalls
    /\ cpc = "idle"
    /\ ncalls' = ncalls + 1
    /\ fullname' = f
    /\ cargoOut' = NoOutput
    /\ walk' = <<>>
    /\ widx' = 1
    /\ cleanOut' = NoOutput
    /\ cleanRet' = NoResult
    /\ cresult' = NoResult
    /\ ioErrors' = {}
    /\ rmAttempts' = 0
    /\ cleanCount' = 0
    /\ copied' = {}
    /\ visited' = {}
    /\ store0' = [files |-> store, dirs |-> storeDirs]
    /\ UNCHANGED <<target, root, storeDirs, store, raised, relocs>>

\* the caller calls compile_crate(name, version, src_path, bc_root)
CallCompile ==
    \E n \in CrateNames, v \in Versions :
        /\ UNCHANGED extractVars
        /\ StartCall(Fullname(n, v))
        /\ op' = "compile"
        /\ cpc' = "cargo"

\* the caller calls clean(path)
CallClean ==
    /\ UNCHANGED extractVars
    /\ StartCall("")
    /\ op' = "clean"
    /\ cpc' = "clean_cargo"

Panic(what, kind) ==
    /\ cpc' = "panic"
    /\ raised' = [op |-> what, kind |-> kind]

\* Command::new("cargo").args(["+1.67", "rustc", ..]).current_dir(src_path).output().unwrap()
RunCargo ==
    /\ UNCHANGED extractVars
    /\ cpc = "cargo"
    /\ \/ /\ Panic("spawn", "Other")
          /\ UNCHANGED <<cargoOut, walk, target>>
       \/ \E out \in CompileOutputs :
             /\ cargoOut' = out
             /\ raised' = raised
             /\ IF out.status
                THEN /\ walk' \in Walks
                     /\ target' = TRUE
                     /\ cpc' = "mkdir"
                ELSE /\ walk' = walk
                     /\ target' \in {target, TRUE}
                     /\ cpc' = "clean_cargo"
    /\ UNCHANGED <<op, ncalls, fullname, widx, root, storeDirs, store, cleanOut, cleanRet,
                   cresult, ioErrors, rmAttempts, cleanCount, copied, visited, store0,
                   relocs>>

\* std::fs::create_dir on output_dir: what the call returns
CreateDirOutcome(fault) ==
    IF ~root THEN "NotFound"
    ELSE IF fullname \in storeDirs THEN "AlreadyExists"
    ELSE IF fault THEN "PermissionDenied"
    ELSE "Ok"

\* a mutant: the Result of create_dir is propagated with "?"
CreateOutputDirPropagate ==
    /\ UNCHANGED extractVars
    /\ cpc = "mkdir"
    /\ \E fault \in BOOLEAN :
          LET r == CreateDirOutcome(fault)
          IN  IF r = "Ok"
              THEN /\ storeDirs' = storeDirs \cup {fullname}
                   /\ cpc' = "walk"
                   /\ UNCHANGED <<cresult, raised>>
              ELSE /\ storeDirs' = storeDirs
                   /\ cpc' = "idle"
                   /\ cresult' = Result("IoError", r, NoOutput)
                   /\ raised' = [op |-> "create_dir", kind |-> r]
    /\ UNCHANGED <<op, ncalls, fullname, cargoOut, walk, widx, target, root, store,
                   cleanOut, cleanRet, ioErrors, rmAttempts, cleanCount, copied, visited,
                   store0, relocs>>

\* std::fs::create_dir(&output_dir); the Result is dropped
CreateOutputDir ==
    /\ UNCHANGED extractVars
    /\ cpc = "mkdir"
    /\ \E fault \in BOOLEAN :
          LET r == CreateDirOutcome(fault)
          IN  IF r = "Ok"
              THEN /\ storeDirs' = storeDirs \cup {fullname}
                   /\ ioErrors' = ioErrors
              ELSE /\ storeDirs' = storeDirs
                   /\ ioErrors' = ioErrors \cup {<<"create_dir", r>>}
    /\ cpc' = "walk"
    /\ UNCHANGED <<op, ncalls, fullname, cargoOut, walk, widx, target, root, store,
                   cleanOut, cleanRet, cresult, raised, rmAttempts, cleanCount, copied,
                   visited, store0, relocs>>

\* std::fs::remove_file(&dst) that succeeded
RemoveFile(st, dst) == [st EXCEPT ![dst] = "absent"]

\* a mutant: the copy empties the destination directory first
CopyIntoPrune(st, dst, content) ==
    [p \in StorePaths |->
        IF p = dst THEN content ELSE IF p[1] = dst[1] THEN "absent" ELSE st[p]]

\* std::fs::copy(e.path(), &dst) that succeeded
CopyInto(st, dst, content) == [st EXCEPT ![dst] = content]

\* one walk entry: filter_map(Result::ok), the extension filter, then
\* remove_file(&dst).unwrap() when dst exists and copy(e.path(), &dst).unwrap()
RelocateEntry ==
    /\ UNCHANGED extractVars
    /\ cpc = "walk"
    /\ widx <= Len(walk)
    /\ LET e == walk[widx]
           dst == <<fullname, e.name>>
       IN  IF ~e.ok
           THEN /\ ioErrors' = ioErrors \cup {<<"walk_entry", "Other">>}
                /\ widx' = widx + 1
                /\ UNCHANGED <<cpc, raised, store, copied, visited>>
           ELSE IF ~HasBcExtension(e.name)
           THEN /\ widx' = widx + 1
                /\ UNCHANGED <<cpc, raised, store, copied, visited, ioErrors>>
           ELSE /\ visited' = visited \cup {e.name}
                /\ ioErrors' = ioErrors
                /\ \E rmFault, cpFault \in BOOLEAN :
                      IF store[dst] # "absent" /\ rmFault
                      THEN /\ Panic("remove_file", "PermissionDenied")
                           /\ UNCHANGED <<store, copied, widx>>
                      ELSE LET st1 == IF store[dst] # "absent"
                                      THEN RemoveFile(store, dst) ELSE store
                           IN  IF fullname \notin storeDirs
                               THEN /\ Panic("copy", "NotFound")
                                    /\ store' = st1
                                    /\ UNCHANGED <<copied, widx>>
                               ELSE IF cpFault
                               THEN /\ Panic("copy", "Other")
                                    /\ store' = st1
                                    /\ UNCHANGED <<copied, widx>>
                               ELSE /\ store' = CopyInto(st1, dst, e.content)
                                    /\ copied' = copied \cup {e.name}
                                    /\ widx' = widx + 1
                                    /\ UNCHANGED <<cpc, raised>>
    /\ UNCHANGED <<op, ncalls, fullname, cargoOut, walk, target, root, storeDirs, cleanOut,
                   cleanRet, cresult, rmAttempts, cleanCount, store0, relocs>>

Relocation ==
    [fullname |-> fullname, walk |-> walk,
     dirExists |-> fullname \in storeDirs,
     dest |-> [f \in StoreFiles |-> store[<<fullname, f>>]]]

\* the walk is exhausted: compile_crate goes on to clean(src_path.as_ref())?
FinishWalk ==
    /\ UNCHANGED extractVars
    /\ cpc = "walk"
    /\ widx > Len(walk)
    /\ cpc' = "clean_cargo"
    /\ relocs' = IF relocs = <<>> THEN <<Relocation>>
                 ELSE <<relocs[Len(relocs)], Relocation>>
    /\ UNCHANGED <<op, ncalls, fullname, cargoOut, walk, widx, target, root, storeDirs,
                   store, cleanOut, cleanRet, cresult, raised, ioErrors, rmAttempts,
                   cleanCount, copied, visited, store0>>

\* Command::new("cargo").arg("+1.60").arg("clean").current_dir(path).output().unwrap()
CleanCargo ==
    /\ UNCHANGED extractVars
    /\ cpc = "clean_cargo"
    /\ cleanCount' = cleanCount + 1
    /\ \/ /\ Panic("spawn", "Other")
          /\ UNCHANGED <<cleanOut, target>>
       \/ \E out \in CleanOutputs :
             /\ cleanOut' = out
             /\ cpc' = "clean_rm"
             /\ raised' = raised
             /\ target' \in (IF out.status THEN {FALSE, target} ELSE {target})
    /\ UNCHANGED <<op, ncalls, fullname, cargoOut, walk, widx, root, storeDirs, store,
                   cleanRet, cresult, ioErrors, rmAttempts, copied, visited, store0,
                   relocs>>

\* std::fs::remove_dir_all(path.join("target")): what the call returns
RemoveDirAllOutcome(fault) ==
    IF ~target THEN "NotFound" ELSE IF fault THEN "PermissionDenied" ELSE "Ok"

\* a mutant: a failed removal of "target" is returned as an error
CleanResultPropagate(out, removal) ==
    IF removal \notin {"Ok", "NotFound"} THEN Result("IoError", removal, NoOutput)
    ELSE IF out.status THEN ResultOk
    ELSE Result("CleanFailure", "", out)

\* if output.status.success() { Ok(()) } else { Err(Error::CleanFailure(output)) }
CleanResult(out, removal) ==
    IF out.status THEN ResultOk ELSE Result("CleanFailure", "", out)

\* remove_dir_all with its Result dropped, then clean returns
CleanRemove ==
    /\ UNCHANGED extractVars
    /\ cpc = "clean_rm"
    /\ rmAttempts' = rmAttempts + 1
    /\ \E fault \in BOOLEAN :
          LET r == RemoveDirAllOutcome(fault)
          IN  /\ target' = IF r = "Ok" THEN FALSE ELSE target
              /\ ioErrors' = IF r = "Ok" THEN ioErrors
                             ELSE ioErrors \cup {<<"remove_dir_all", r>>}
              /\ cleanRet' = CleanResult(cleanOut, r)
              /\ IF op = "clean"
                 THEN cpc' = "idle" /\ cresult' = CleanResult(cleanOut, r)
                 ELSE cpc' = "after_clean" /\ cresult' = cresult
    /\ UNCHANGED <<op, ncalls, fullname, cargoOut, walk, widx, root, storeDirs, store,
                   cleanOut, raised, cleanCount, copied, visited, store0, relocs>>

\* format!("{}\n-----------\n{}", stdout, stderr)
CompileFailedText(out) == out.stdout \o "\n-----------\n" \o out.stderr

\* what compile_crate returns once clean returned Ok
CompileOutcome(out) ==
    IF out.status THEN ResultOk
    ELSE Result("CompileFailed", CompileFailedText(out), NoOutput)

\* the "?" after clean, then Ok(()) or Err(Error::CompileFailed(..)), whose
\* from_utf8(..).unwrap() panics on a stream that is not UTF-8
CompileReturn ==
    /\ UNCHANGED extractVars
    /\ cpc = "after_clean"
    /\ IF cleanRet.kind # "Ok"
       THEN /\ cpc' = "idle"
            /\ cresult' = cleanRet
            /\ raised' = raised
       ELSE IF ~cargoOut.status /\ ~cargoOut.utf8
       THEN /\ Panic("from_utf8", "Utf8Error")
            /\ cresult' = cresult
       ELSE /\ cpc' = "idle"
            /\ cresult' = CompileOutcome(cargoOut)
            /\ raised' = raised
    /\ UNCHANGED <<op, ncalls, fullname, cargoOut, walk, widx, target, root, storeDirs,
                   store, cleanOut, cleanRet, ioErrors, rmAttempts, cleanCount, copied,
                   visited, store0, relocs>>

(***************************************************************************)
(* Specifications: one for extract_calls, one for compile_crate and clean. *)
(***************************************************************************)
ExtractIdle ==
    /\ dir = <<>>
    /\ dirReadable = TRUE
    /\ xpc = "unused"
    /\ idx = 1
    /\ eidx = 1
    /\ calls = <<>>
    /\ loadCalls = <<>>
    /\ xresult = "none"

CompileIdle ==
    /\ InitCompile
    /\ target = FALSE
    /\ root = FALSE

InitExtractCalls == InitExtract /\ CompileIdle

NextExtract == ReadDir \/ NextEntry \/ LoadModule \/ VisitEdge

SpecExtract == InitExtractCalls /\ [][NextExtract]_vars

InitCompileCrate == InitCompile /\ ExtractIdle

NextCompile ==
    \/ CallCompile
    \/ CallClean
    \/ RunCargo
    \/ CreateOutputDir
    \/ RelocateEntry
    \/ FinishWalk
    \/ CleanCargo
    \/ CleanRemove
    \/ CompileReturn

SpecCompile == InitCompileCrate /\ [][NextCompile]_vars

(***************************************************************************)
(* Properties of extract_calls (checked under SpecExtract).                *)
(***************************************************************************)
Range(s) == {s[i] : i \in 1..Len(s)}

Denylisted(name) == \E s \in BLOCKED_STRINGS : Contains(name, s)

IsBc(name) == Extension(name) = [some |-> TRUE, ext |-> EXT_bc]

NAME_app_main == <<"a", "p", "p", ":", ":", "m", "a", "i", "n">>
NAME_app_run == <<"a", "p", "p", ":", ":", "r", "u", "n">>

\* the accepted pairs of one module, in edge order
RECURSIVE AcceptedEdges(_)
AcceptedEdges(edges) ==
    IF edges = <<>> THEN <<>>
    ELSE Accept(Head(edges)[1], Head(edges)[2]) \o AcceptedEdges(Tail(edges))

\* the accepted pairs of a listing's artifacts, in listing order
RECURSIVE ExpectedCalls(_)
ExpectedCalls(entries) ==
    IF entries = <<>> THEN <<>>
    ELSE (IF Head(entries).ok /\ HasBcExtension(Head(entries).name)
          THEN AcceptedEdges(Head(entries).edges) ELSE <<>>)
         \o ExpectedCalls(Tail(entries))

\* C1: once extract_calls has returned, for every raw edge of every module it
\* loaded the pair (demangled caller, demangled callee) is in the output iff
\* neither demangled name contains a BLOCKED_STRINGS substring; no pair with a
\* denylisted endpoint is ever in the output; the edge _ZN3app4mainE ->
\* _ZN3app3run3h1fE appears as ("app::main", "app::run"), caller first.
T_C1_FilterIff ==
    /\ \A k \in 1..Len(calls) : ~Denylisted(calls[k][1]) /\ ~Denylisted(calls[k][2])
    /\ xresult = "Ok" =>
          \A k \in 1..Len(loadCalls) :
             LET m == dir[loadCalls[k]].edges
             IN  /\ \A e \in 1..Len(m) :
                       LET pair == <<Demangle(m[e][1]), Demangle(m[e][2])>>
                       IN  (pair \in Range(calls))
                              <=> (~Denylisted(pair[1]) /\ ~Denylisted(pair[2]))
                 /\ m = MOD_one => <<NAME_app_main, NAME_app_run>> \in Range(calls)

\* extract_calls returned after loading a module of which one edge was kept and
\* another, denylisted only in its demangled form, was dropped
W_C1_Filtered ==
    /\ xresult = "Ok"
    /\ \E k \in 1..Len(loadCalls) :
          LET m == dir[loadCalls[k]].edges
          IN  /\ \E e \in 1..Len(m) :
                    /\ ~Denylisted(m[e][1]) /\ ~Denylisted(m[e][2])
                    /\ Denylisted(Demangle(m[e][2]))
                    /\ <<Demangle(m[e][1]), Demangle(m[e][2])>> \notin Range(calls)
              /\ \E e \in 1..Len(m) :
                    <<Demangle(m[e][1]), Demangle(m[e][2])>> \in Range(calls)

\* C4: the sequence extract_calls returns is the concatenation, in directory
\* iteration order, of each artifact's accepted edges in edge order: nothing is
\* dropped, merged, deduplicated or reordered.
T_C4_Concatenation ==
    xresult = "Ok" =>
        /\ calls = ExpectedCalls(dir)
        /\ \A k \in 1..Len(loadCalls) : k > 1 => loadCalls[k - 1] < loadCalls[k]

\* two artifacts with one accepted edge each, the same pair: two pairs returned
W_C4_TwoEqualPairs ==
    /\ xresult = "Ok"
    /\ Len(loadCalls) = 2
    /\ \A k \in 1..2 : Len(AcceptedEdges(dir[loadCalls[k]].edges)) = 1
    /\ Len(calls) = 2
    /\ calls[1] = calls[2]

\* C5: an entry whose path has not the extension "bc" is never passed to the
\* module loader, and the output equals the output for the directory with all
\* such entries removed.
T_C5_ExtensionFilter ==
    /\ \A k \in 1..Len(loadCalls) : dir[loadCalls[k]].ok /\ IsBc(dir[loadCalls[k]].name)
    /\ xresult = "Ok" =>
          calls = ExpectedCalls(SelectSeq(dir, LAMBDA e : ~e.ok \/ IsBc(e.name)))

\* a returned extraction of a directory that holds a loadable file with accepted
\* edges but without the extension, next to a real artifact
W_C5_NonBcIgnored ==
    /\ xresult = "Ok"
    /\ calls # <<>>
    /\ \E i \in 1..Len(dir) :
          /\ dir[i].ok /\ ~IsBc(dir[i].name)
          /\ dir[i].loadable /\ AcceptedEdges(dir[i].edges) # <<>>
          /\ \A k \in 1..Len(loadCalls) : loadCalls[k] # i

BadArtifact(i) == dir[i].ok /\ IsBc(dir[i].name) /\ ~dir[i].loadable

\* C10: when the directory cannot be read or an artifact with the extension
\* "bc" fails to load, extract_calls never returns Ok; the failed load ends the
\* run in a panic and no later artifact is loaded.
T_C10_AbortOnFailure ==
    /\ (~dirReadable \/ \E i \in 1..Len(dir) : BadArtifact(i)) => xresult # "Ok"
    /\ ~dirReadable => (xpc \in {"read_dir", "panic"} /\ loadCalls = <<>>)
    /\ \A k \in 1..Len(loadCalls) :
          /\ \A i \in 1..(loadCalls[k] - 1) : ~BadArtifact(i)
          /\ BadArtifact(loadCalls[k]) => xpc = "panic"

\* the run panicked on a bad artifact after collecting pairs, with a loadable
\* artifact still ahead in the listing
W_C10_AbortedMidway ==
    /\ xpc = "panic"
    /\ dirReadable
    /\ calls # <<>>
    /\ \E i \in 1..Len(dir) :
          /\ i > idx
          /\ dir[i].ok /\ IsBc(dir[i].name) /\ dir[i].loadable

(***************************************************************************)
(* Properties of compile_crate and clean (checked under SpecCompile).      *)
(***************************************************************************)
Returned == cpc = "idle" /\ cresult.kind # "none"

CompileFailedBuild == op = "compile" /\ cargoOut.ran /\ ~cargoOut.status

\* C2: when the build exits non-zero, after compile_crate returns "target" is
\* absent and the value is CompileFailed with the captured stdout and stderr,
\* never Ok and never another error kind.
CE_C2_CompileFailedAndCleaned ==
    (Returned /\ CompileFailedBuild) =>
        /\ ~target
        /\ cresult = Result("CompileFailed", CompileFailedText(cargoOut), NoOutput)

\* the bitcode artifacts of the walk have all been copied into output_dir
AllArtifactsCopied ==
    /\ widx > Len(walk)
    /\ \A i \in 1..Len(walk) : (walk[i].ok /\ IsBc(walk[i].name)) => walk[i].name \in copied

\* C3: every compile attempt, successful or not, is followed by exactly one
\* invocation of clean before compile_crate finishes, on success only after all
\* artifacts were copied; no attempt ends without clean having run.
CE_C3_CleanAlwaysRuns ==
    /\ (op = "compile" /\ cargoOut.ran /\ cpc \in {"idle", "panic"}) => cleanCount = 1
    /\ (op = "compile" /\ cargoOut.status /\ cleanCount > 0) => AllArtifactsCopied

\* the content the walk leaves under a file name: that of its last artifact
RECURSIVE LastContent(_, _)
LastContent(w, name) ==
    IF w = <<>> THEN "absent"
    ELSE IF w[Len(w)].ok /\ w[Len(w)].name = name THEN w[Len(w)].content
    ELSE LastContent(SubSeq(w, 1, Len(w) - 1), name)

HasArtifact(w) == \E i \in 1..Len(w) : w[i].ok /\ IsBc(w[i].name)

\* C6: running the relocation step twice with the same source artifacts and
\* destination leaves the destination as one run does: one file per artifact
\* name, holding the artifact's content; the existing directory or file raises
\* no error in the second run.
T_C6_RelocationIdempotent ==
    /\ (/\ Len(relocs) = 2
        /\ relocs[1].fullname = relocs[2].fullname
        /\ relocs[1].walk = relocs[2].walk
        /\ HasArtifact(relocs[1].walk))
          => /\ relocs[2].dest = relocs[1].dest
             /\ relocs[2].dirExists = relocs[1].dirExists
    /\ \A k \in 1..Len(relocs) :
          \A i \in 1..Len(relocs[k].walk) :
             LET e == relocs[k].walk[i]
             IN  (e.ok /\ IsBc(e.name)) =>
                     /\ relocs[k].dirExists
                     /\ relocs[k].dest[e.name] = LastContent(relocs[k].walk, e.name)
    /\ raised.kind # "AlreadyExists"
    /\ cresult.text # "AlreadyExists"

\* the second of two relocations of the same artifact into the same directory
\* has completed: create_dir answered AlreadyExists and the file was replaced
W_C6_SecondRelocation ==
    /\ cpc = "clean_cargo"
    /\ Len(relocs) = 2
    /\ relocs[1].fullname = relocs[2].fullname
    /\ relocs[1].walk = relocs[2].walk
    /\ relocs[2].fullname = fullname
    /\ FILE_a_bc \in copied
    /\ store0.files[<<fullname, FILE_a_bc>>] = relocs[1].dest[FILE_a_bc]
    /\ <<"create_dir", "AlreadyExists">> \in ioErrors

T_C8_CleanResult ==
    /\ cleanRet.kind # "none" =>
          /\ cleanOut.ran
          /\ rmAttempts = 1
          /\ cleanRet.kind = "Ok" <=> cleanOut.status
          /\ ~cleanOut.status => cleanRet = Result("CleanFailure", "", cleanOut)
          /\ cleanOut.status => cleanRet = ResultOk
    /\ (op = "clean" /\ Returned) => (cleanRet.kind # "none" /\ cresult = cleanRet)
    /\ (op = "clean" /\ cpc = "idle" /\ ncalls > 0) => Returned

\* clean returned Ok although "target" could not be removed and is still there
W_C8_OkDespiteRemovalFailure ==
    /\ op = "clean"
    /\ Returned
    /\ cresult.kind = "Ok"
    /\ <<"remove_dir_all", "PermissionDenied">> \in ioErrors
    /\ target

\* errors the design tolerates: the directory is already there, "target" is not
Tolerated == {<<"create_dir", "AlreadyExists">>, <<"remove_dir_all", "NotFound">>}

\* C9: no error is silently swallowed: a call in which a file-system or
\* toolchain operation failed never returns Ok.
CE_C9_NoSwallowedError ==
    (Returned /\ cresult.kind = "Ok") => ioErrors \subseteq Tolerated

====
